---- MODULE Spec2Model ----
(***************************************************************************)
(* Model of the preview-camera Capacitor plugin.                           *)
(*                                                                         *)
(* PreviewCameraPlugin (src/src/definitions.ts, the Swift class that       *)
(* starts at line 48) is the command surface: one handler per command,     *)
(* each receiving a CAPPluginCall that it resolves or rejects.  The        *)
(* handlers forward to a PreviewCamera object, the capture session         *)
(* controller.  The PreviewCamera class itself is not among the sources;   *)
(* the Cam_* operators below follow section 4.4 of the specification.      *)
(***************************************************************************)
EXTENDS Integers, Sequences, FiniteSets, TLC

\* Number of commands the host issues in one behaviour.
MaxCalls == 4

\* Zoom range of the camera devices (Device.minZoom, Device.maxZoom).
ZoomMin == 1
ZoomMax == 2

\* Result of minAvailableZoom and maxAvailableZoom without a controller (?? 1.0).
DefaultZoom == 1

Directions == {"front", "rear"}

\* AVAuthorizationStatus
AuthStatuses == {"notDetermined", "authorized", "denied", "restricted"}

\* Messages of the rejections made by the plugin itself.
MsgMissingUsage == "Missing usage description"
MsgSimulator == "Camera not available while running in Simulator"
MsgDenied == "User denied access to camera"
MsgUnimplemented == "not implemented"
MsgNotInitialized == "Preview Camera not initialized"

\* Error taxonomy of the controller (PreviewCameraError.message).
ErrNotInitialized == "NotInitialized"
ErrCaptureInProgress == "CaptureInProgress"
ErrRecordingInProgress == "RecordingInProgress"
ErrNotRecording == "NotRecording"
ErrDeviceUnavailable == "DeviceUnavailable"
ErrAlreadyStarted == "SessionAlreadyStarted"
ErrWrite == "EncodeOrWriteFailure"

\* The quality option is a percentage; 100 is also its default.
Percent == 100
DefaultQuality == 100

defaultDirection == "rear"
defaultResultType == "base64"
ResultTypes == {"base64"}

\* CameraSettings(): a new settings value does not ask for a resize.
CameraSettings == [shouldResize |-> FALSE]

\* Largest quality and largest width or height a call is given here.
MaxQuality == 150
MaxSize == 1

VARIABLES
    previewCamera,      \* TRUE iff load() created the PreviewCamera object
    isSimEnvironment,   \* bridge?.isSimEnvironment
    missingUsage,       \* checkUsageDescriptions() finds a missing key
    authStatus,         \* AVCaptureDevice.authorizationStatus(for: .video)
    cameras,            \* directions for which the device has a camera
    cam,                \* the PreviewCamera object (session controller)
    call,               \* self.call: the options of the last startPreview call
    access,             \* startPreview calls waiting in requestAccess, by direction
    lastStart,          \* the last startPreview call whose requestAccess callback ran
    emitter,            \* CaptureResults handed to notifyListeners, not yet delivered
    photoDue,           \* takePhoto calls resolved minus capturePhotoFinished delivered
    videoDue,           \* stopRecord calls resolved minus captureVideoFinished delivered
    last,               \* the last handler run: the call and how it was settled
    nCalls,             \* commands issued so far
    mainQueue,          \* blocks queued on DispatchQueue.main by hide/showBackground
    jsCallbacks,        \* evaluateJavaScript completion handlers of showBackground to run
    isOpaque,           \* webView.isOpaque (with the white or clear background colour)
    docBackground,      \* document.documentElement.style.backgroundColor
    settings            \* <<the CameraSettings cameraSettings returned>>, <<>> before

vars == <<previewCamera, isSimEnvironment, missingUsage, authStatus, cameras, cam,
          call, access, lastStart, emitter, photoDue, videoDue, last, nCalls,
          mainQueue, jsCallbacks, isOpaque, docBackground, settings>>

env == <<previewCamera, isSimEnvironment, missingUsage, cameras>>
host == <<photoDue, videoDue>>
webView == <<mainQueue, jsCallbacks, isOpaque, docBackground>>

-----------------------------------------------------------------------------
(* The session controller, PreviewCamera.                                  *)

Opposite(d) == IF d = "front" THEN "rear" ELSE "front"

CamInit == [state |-> "Idle", direction |-> "rear", devices |-> 0,
            pendingPhoto |-> 0, torch |-> FALSE, zoom |-> ZoomMin]

\* Result of a controller operation: the error it raised ("" for none), the
\* controller afterwards and the CaptureResults it handed to the emitter.
Ok(c) == [err |-> "", cam |-> c, out |-> <<>>, invoked |-> TRUE]
Raise(c, e) == [err |-> e, cam |-> c, out |-> <<>>, invoked |-> TRUE]

\* Optional chaining on a nil controller: nothing is called, nothing is raised.
Skipped(c) == [err |-> "", cam |-> c, out |-> <<>>, invoked |-> FALSE]

\* OutputSink.persist keeping the file path next to the error message.
Persist_Both(name, ok) ==
    [name |-> name,
     filePath |-> "file://capture",
     errorMessage |-> IF ok THEN "" ELSE ErrWrite]

\* OutputSink.persist: a file path, or an error message when the write fails.
Persist(name, ok) ==
    [name |-> name,
     filePath |-> IF ok THEN "file://capture" ELSE "",
     errorMessage |-> IF ok THEN "" ELSE ErrWrite]

\* startCameraPreview(settings:). Calling it on a started session is left
\* undefined: `again` chooses between an error and a call without effect.
Cam_startCameraPreview(c, dir, again) ==
    IF c.state = "Idle"
    THEN IF dir \in cameras
         THEN Ok([c EXCEPT !.state = "Previewing", !.direction = dir, !.devices = @ + 1])
         ELSE Raise(c, ErrDeviceUnavailable)
    ELSE IF again THEN Ok(c) ELSE Raise(c, ErrAlreadyStarted)

Cam_stopPreviewCamera(c) ==
    CASE c.state = "Idle" -> Raise(c, ErrNotInitialized)
      [] c.state \in {"Capturing", "Recording"} -> Raise(c, ErrCaptureInProgress)
      [] OTHER -> Ok([c EXCEPT !.state = "Idle", !.devices = @ - 1,
                               !.torch = FALSE, !.zoom = ZoomMin])

Cam_takePhoto(c) ==
    CASE c.state = "Idle" -> Raise(c, ErrNotInitialized)
      [] c.state \in {"Capturing", "Recording"} -> Raise(c, ErrCaptureInProgress)
      [] OTHER -> Ok([c EXCEPT !.state = "Capturing", !.pendingPhoto = @ + 1])

Cam_startRecord(c) ==
    CASE c.state = "Idle" -> Raise(c, ErrNotInitialized)
      [] c.state = "Recording" -> Raise(c, ErrRecordingInProgress)
      [] c.state = "Capturing" -> Raise(c, ErrCaptureInProgress)
      [] OTHER -> Ok([c EXCEPT !.state = "Recording"])

Cam_stopRecord(c, ok) ==
    CASE c.state = "Idle" -> Raise(c, ErrNotInitialized)
      [] c.state # "Recording" -> Raise(c, ErrNotRecording)
      [] OTHER -> [err |-> "", cam |-> [c EXCEPT !.state = "Previewing"],
                   out |-> <<Persist("captureVideoFinished", ok)>>, invoked |-> TRUE]

Cam_flipCamera(c) ==
    CASE c.state = "Idle" -> Raise(c, ErrNotInitialized)
      [] c.state \in {"Capturing", "Recording"} -> Raise(c, ErrCaptureInProgress)
      [] Opposite(c.direction) \notin cameras -> Raise(c, ErrDeviceUnavailable)
      [] OTHER -> Ok([c EXCEPT !.direction = Opposite(@), !.torch = FALSE,
                               !.zoom = ZoomMin])

\* The flash-availability query behind getFlashModes.
Cam_getFlashModes(c) ==
    IF c.state = "Idle" THEN Raise(c, ErrNotInitialized) ELSE Ok(c)

\* DeviceSelector.hasTorch: the rear camera has a torch, the front one has none.
Cam_isTorchAvailable(c) == c.state # "Idle" /\ c.direction = "rear"

Cam_isTorchOn(c) == c.torch

Cam_enableTorch(c, enable) ==
    IF Cam_isTorchAvailable(c) THEN Ok([c EXCEPT !.torch = enable]) ELSE Ok(c)

Cam_minAvailableZoom(c) == ZoomMin

Cam_maxAvailableZoom(c) == ZoomMax

Clamp(v, lo, hi) == IF v < lo THEN lo ELSE IF v > hi THEN hi ELSE v

Cam_zoom(c, factor) ==
    IF c.state = "Idle" THEN Ok(c)
    ELSE Ok([c EXCEPT !.zoom = Clamp(factor, Cam_minAvailableZoom(c),
                                     Cam_maxAvailableZoom(c))])

\* Best effort: the focus point is set on the device and not kept by the session.
Cam_focus(c, x, y) == Ok(c)

\* The preset applies to later captures and is not kept by the session.
Cam_setQuality(c, quality) == Ok(c)

Cam_echo(value) == value

-----------------------------------------------------------------------------
(* The plugin, PreviewCameraPlugin.                                        *)

\* Number of startPreview calls waiting for requestAccess to answer.
Suspended == access["front"] + access["rear"]

\* What a handler run leaves behind for the host: the command, whether the
\* controller existed and was called, the session state and the authorization it
\* found, the error the controller raised, how often the call was resolved and
\* rejected and with which message, whether a startPreview call was waiting for
\* its permission answer, whether the controller was left as it was, and whether
\* the handler asked for camera access.
Settle(op, r, resolved, rejected, msg) ==
    [op |-> op, ctl |-> previewCamera, pre |-> cam.state, auth |-> authStatus,
     invoked |-> r.invoked, raised |-> r.err, resolved |-> resolved,
     rejected |-> rejected, msg |-> msg, during |-> Suspended > 0,
     same |-> r.cam = cam, asked |-> FALSE, value |-> <<>>]

\* call.resolve(["result": value]) or call.resolve(["value": value])
Resolve(op, r, value) == [Settle(op, r, 1, 0, "") EXCEPT !.value = <<value>>]

NoCall == [op |-> "", ctl |-> FALSE, pre |-> "Idle", auth |-> "notDetermined",
           invoked |-> FALSE, raised |-> "", resolved |-> 0, rejected |-> 0, msg |-> "",
           during |-> FALSE, same |-> TRUE, asked |-> FALSE, value |-> <<>>]

\* A startPreview call after its requestAccess callback: the answer, the error
\* startCameraPreview raised, and how often the call was resolved and rejected.
NoStart == [answered |-> FALSE, granted |-> FALSE, resolved |-> 0, rejected |-> 0,
            msg |-> "", raised |-> "", invoked |-> FALSE]

\* Optional arguments: <<>> when the option is absent, <<v>> when it is v.
Absent == <<>>

Init ==
    /\ previewCamera \in BOOLEAN
    /\ isSimEnvironment \in BOOLEAN
    /\ missingUsage \in BOOLEAN
    /\ authStatus \in AuthStatuses
    /\ cameras \in {{"rear"}, {"front", "rear"}}
    /\ cam = CamInit
    /\ call = Absent
    /\ access = [d \in Directions |-> 0]
    /\ lastStart = NoStart
    /\ emitter = <<>>
    /\ photoDue = 0
    /\ videoDue = 0
    /\ last = NoCall
    /\ nCalls = 0
    /\ mainQueue = <<>>
    /\ jsCallbacks = 0
    /\ isOpaque = TRUE
    /\ docBackground = ""
    /\ settings = Absent

\* call.getFloat(key, default) and its like: the option, or the default.
Get(opt, default) == IF opt = Absent THEN default ELSE opt[1]

Abs(x) == IF x < 0 THEN 0 - x ELSE x
Min(x, y) == IF x < y THEN x ELSE y

\* cameraSettings(from:) with the width test left out of shouldResize's.
cameraSettings_ResizeOnHeight(from) ==
    LET quality == Get(from.quality, DefaultQuality)
        direction == Get(from.direction, defaultDirection)
        resultType == Get(from.resultType, defaultResultType)
        width == Get(from.width, 0)
        height == Get(from.height, 0)
    IN [jpegQuality |-> Min(Abs(quality), Percent),
        direction |-> IF direction \in Directions THEN direction ELSE defaultDirection,
        resultType |-> IF resultType \in ResultTypes THEN resultType
                       ELSE defaultResultType,
        width |-> width,
        height |-> height,
        shouldResize |-> IF height > 0 THEN TRUE ELSE CameraSettings.shouldResize,
        shouldCorrectOrientation |-> Get(from.correctOrientation, TRUE),
        forcePortraitOrientation |-> Get(from.forcePortraitOrientation, TRUE),
        mirrorFrontCameraResult |-> Get(from.mirrorFrontCameraResult, TRUE)]

\* cameraSettings(from:). Qualities are counted in hundredths: the option is a
\* percentage, and jpegQuality 100 stands for 1.0.
cameraSettings(from) ==
    LET quality == Get(from.quality, DefaultQuality)
        direction == Get(from.direction, defaultDirection)
        resultType == Get(from.resultType, defaultResultType)
        width == Get(from.width, 0)
        height == Get(from.height, 0)
    IN [jpegQuality |-> Min(Abs(quality), Percent),
        direction |-> IF direction \in Directions THEN direction ELSE defaultDirection,
        resultType |-> IF resultType \in ResultTypes THEN resultType
                       ELSE defaultResultType,
        width |-> width,
        height |-> height,
        shouldResize |-> IF width > 0 \/ height > 0 THEN TRUE
                         ELSE CameraSettings.shouldResize,
        shouldCorrectOrientation |-> Get(from.correctOrientation, TRUE),
        forcePortraitOrientation |-> Get(from.forcePortraitOrientation, TRUE),
        mirrorFrontCameraResult |-> Get(from.mirrorFrontCameraResult, TRUE)]

\* The options of a startPreview call that names at most a direction.
Options(dir) ==
    [quality |-> Absent, direction |-> dir, resultType |-> Absent, width |-> Absent,
     height |-> Absent, correctOrientation |-> Absent,
     forcePortraitOrientation |-> Absent, mirrorFrontCameraResult |-> Absent]

\* The direction startCameraPreview is given for a call with option `opt`.
DirectionOf(opt) == cameraSettings(Options(opt)).direction

\* DispatchQueue.main.async of the block that makes the web view transparent.
hideBackground == mainQueue' = Append(mainQueue, "hide")

\* DispatchQueue.main.async of the block that restores the page background.
showBackground == mainQueue' = Append(mainQueue, "show")

\* startPreview without the check for the simulator.
startPreview_NoSimCheck ==
    /\ nCalls < MaxCalls
    /\ nCalls' = nCalls + 1
    /\ \E opt \in {Absent, <<"front">>, <<"rear">>} :
        /\ call' = Options(opt)
        /\ IF missingUsage
           THEN /\ last' = Settle("startPreview", Skipped(cam), 0, 1, MsgMissingUsage)
                /\ UNCHANGED access
           ELSE IF authStatus \in {"restricted", "denied"}
           THEN /\ last' = Settle("startPreview", Skipped(cam), 0, 1, MsgDenied)
                /\ UNCHANGED access
           ELSE /\ last' = [Settle("startPreview", Skipped(cam), 0, 0, "")
                               EXCEPT !.asked = TRUE]
                /\ access' = [access EXCEPT ![DirectionOf(opt)] = @ + 1]
    /\ UNCHANGED <<env, settings, authStatus, cam, lastStart, emitter, host, webView>>

\* startPreview that tests the authorization for .denied alone.
startPreview_DeniedOnly ==
    /\ nCalls < MaxCalls
    /\ nCalls' = nCalls + 1
    /\ \E opt \in {Absent, <<"front">>, <<"rear">>} :
        /\ call' = Options(opt)
        /\ IF missingUsage
           THEN /\ last' = Settle("startPreview", Skipped(cam), 0, 1, MsgMissingUsage)
                /\ UNCHANGED access
           ELSE IF isSimEnvironment
           THEN /\ last' = Settle("startPreview", Skipped(cam), 0, 1, MsgSimulator)
                /\ UNCHANGED access
           ELSE IF authStatus = "denied"
           THEN /\ last' = Settle("startPreview", Skipped(cam), 0, 1, MsgDenied)
                /\ UNCHANGED access
           ELSE /\ last' = [Settle("startPreview", Skipped(cam), 0, 0, "")
                               EXCEPT !.asked = TRUE]
                /\ access' = [access EXCEPT ![DirectionOf(opt)] = @ + 1]
    /\ UNCHANGED <<env, settings, authStatus, cam, lastStart, emitter, host, webView>>

startPreview ==
    /\ nCalls < MaxCalls
    /\ nCalls' = nCalls + 1
    /\ \E opt \in {Absent, <<"front">>, <<"rear">>} :
        /\ call' = Options(opt)
        /\ IF missingUsage
           THEN /\ last' = Settle("startPreview", Skipped(cam), 0, 1, MsgMissingUsage)
                /\ UNCHANGED access
           ELSE IF isSimEnvironment
           THEN /\ last' = Settle("startPreview", Skipped(cam), 0, 1, MsgSimulator)
                /\ UNCHANGED access
           ELSE IF authStatus \in {"restricted", "denied"}
           THEN /\ last' = Settle("startPreview", Skipped(cam), 0, 1, MsgDenied)
                /\ UNCHANGED access
           ELSE /\ last' = [Settle("startPreview", Skipped(cam), 0, 0, "")
                               EXCEPT !.asked = TRUE]
                /\ access' = [access EXCEPT ![DirectionOf(opt)] = @ + 1]
    /\ UNCHANGED <<env, settings, authStatus, cam, lastStart, emitter, host, webView>>

\* The completion handler of AVCaptureDevice.requestAccess. The system answers
\* from the stored authorization, or from the user's answer to the prompt.
requestAccessCallback ==
    \E dir \in Directions, answer \in BOOLEAN, again \in BOOLEAN :
        LET granted == CASE authStatus = "authorized" -> TRUE
                         [] authStatus = "notDetermined" -> answer
                         [] OTHER -> FALSE
            r == IF previewCamera
                 THEN Cam_startCameraPreview(cam, dir, again)
                 ELSE Skipped(cam)
            done(resolved, rejected, msg, rr) ==
                [answered |-> TRUE, granted |-> granted, resolved |-> resolved,
                 rejected |-> rejected, msg |-> msg, raised |-> rr.err,
                 invoked |-> rr.invoked]
        IN /\ access[dir] > 0
           /\ access' = [access EXCEPT ![dir] = @ - 1]
           /\ authStatus' = IF authStatus = "notDetermined"
                            THEN (IF granted THEN "authorized" ELSE "denied")
                            ELSE authStatus
           /\ IF granted
              THEN /\ cam' = r.cam
                   /\ IF r.err = ""
                      THEN /\ hideBackground
                           /\ lastStart' = done(1, 0, "", r)
                      ELSE /\ lastStart' = done(0, 1, r.err, r)
                           /\ UNCHANGED mainQueue
              ELSE /\ lastStart' = done(0, 0, "", Skipped(cam))
                   /\ UNCHANGED <<cam, mainQueue>>
           /\ UNCHANGED <<env, settings, call, emitter, host, last, nCalls, jsCallbacks,
                          isOpaque, docBackground>>

\* stopPreview that restores the background and resolves the call whatever
\* stopPreviewCamera raised.
stopPreview_NoCatch ==
    /\ nCalls < MaxCalls
    /\ nCalls' = nCalls + 1
    /\ IF ~previewCamera
       THEN /\ last' = Settle("stopPreview", Skipped(cam), 0, 1, MsgNotInitialized)
            /\ UNCHANGED <<cam, mainQueue>>
       ELSE LET r == Cam_stopPreviewCamera(cam)
            IN /\ cam' = r.cam
               /\ showBackground
               /\ last' = Settle("stopPreview", r, 1, 0, "")
    /\ UNCHANGED <<env, settings, authStatus, call, access, lastStart, emitter, host, jsCallbacks,
                   isOpaque, docBackground>>

stopPreview ==
    /\ nCalls < MaxCalls
    /\ nCalls' = nCalls + 1
    /\ IF ~previewCamera
       THEN /\ last' = Settle("stopPreview", Skipped(cam), 0, 1, MsgNotInitialized)
            /\ UNCHANGED <<cam, mainQueue>>
       ELSE LET r == Cam_stopPreviewCamera(cam)
            IN /\ cam' = r.cam
               /\ IF r.err = ""
                  THEN /\ showBackground
                       /\ last' = Settle("stopPreview", r, 1, 0, "")
                  ELSE /\ last' = Settle("stopPreview", r, 0, 1, r.err)
                       /\ UNCHANGED mainQueue
    /\ UNCHANGED <<env, settings, authStatus, call, access, lastStart, emitter, host, jsCallbacks,
                   isOpaque, docBackground>>

\* takePhoto without its catch clauses: the call is resolved whatever the
\* controller raised.
takePhoto_NoCatch ==
    /\ nCalls < MaxCalls
    /\ nCalls' = nCalls + 1
    /\ LET r == IF previewCamera THEN Cam_takePhoto(cam) ELSE Skipped(cam)
       IN /\ cam' = r.cam
          /\ last' = Settle("takePhoto", r, 1, 0, "")
          /\ photoDue' = photoDue + 1
    /\ UNCHANGED <<env, settings, authStatus, call, access, lastStart, emitter, videoDue, webView>>

takePhoto ==
    /\ nCalls < MaxCalls
    /\ nCalls' = nCalls + 1
    /\ LET r == IF previewCamera THEN Cam_takePhoto(cam) ELSE Skipped(cam)
       IN /\ cam' = r.cam
          /\ IF r.err = ""
             THEN /\ last' = Settle("takePhoto", r, 1, 0, "")
                  /\ photoDue' = photoDue + 1
             ELSE /\ last' = Settle("takePhoto", r, 0, 1, r.err)
                  /\ UNCHANGED photoDue
    /\ UNCHANGED <<env, settings, authStatus, call, access, lastStart, emitter, videoDue, webView>>

\* capturePhoto is declared by the interface, but the plugin class has no
\* method of that name: the bridge finds no handler, nothing of the plugin runs
\* and the call is rejected as not implemented.
capturePhoto ==
    /\ nCalls < MaxCalls
    /\ nCalls' = nCalls + 1
    /\ last' = Settle("capturePhoto", Skipped(cam), 0, 1, MsgUnimplemented)
    /\ UNCHANGED cam
    /\ UNCHANGED <<env, settings, authStatus, call, access, lastStart, emitter, host, webView>>

\* startRecord whose catch clause for PreviewCameraError does not match, so that
\* the general clause answers with its fixed message.
startRecord_GeneralCatch ==
    /\ nCalls < MaxCalls
    /\ nCalls' = nCalls + 1
    /\ LET r == IF previewCamera THEN Cam_startRecord(cam) ELSE Skipped(cam)
       IN /\ cam' = r.cam
          /\ last' = IF r.err = ""
                     THEN Settle("startRecord", r, 1, 0, "")
                     ELSE Settle("startRecord", r, 0, 1, "Unknow error on startRecord")
    /\ UNCHANGED <<env, settings, authStatus, call, access, lastStart, emitter, host, webView>>

startRecord ==
    /\ nCalls < MaxCalls
    /\ nCalls' = nCalls + 1
    /\ LET r == IF previewCamera THEN Cam_startRecord(cam) ELSE Skipped(cam)
       IN /\ cam' = r.cam
          /\ last' = IF r.err = "" THEN Settle("startRecord", r, 1, 0, "")
                                   ELSE Settle("startRecord", r, 0, 1, r.err)
    /\ UNCHANGED <<env, settings, authStatus, call, access, lastStart, emitter, host, webView>>

\* stopRecord rejecting the call when the video cannot be written.
stopRecord_RejectOnWriteFailure ==
    /\ nCalls < MaxCalls
    /\ nCalls' = nCalls + 1
    /\ \E ok \in BOOLEAN :
        LET r == IF previewCamera THEN Cam_stopRecord(cam, ok) ELSE Skipped(cam)
        IN /\ cam' = r.cam
           /\ emitter' = emitter \o r.out
           /\ IF r.err = "" /\ (ok \/ r.out = <<>>)
              THEN /\ last' = Settle("stopRecord", r, 1, 0, "")
                   /\ videoDue' = videoDue + 1
              ELSE /\ last' = Settle("stopRecord", r, 0, 1, IF r.err = "" THEN ErrWrite ELSE r.err)
                   /\ UNCHANGED videoDue
    /\ UNCHANGED <<env, settings, authStatus, call, access, lastStart, photoDue, webView>>

stopRecord ==
    /\ nCalls < MaxCalls
    /\ nCalls' = nCalls + 1
    /\ \E ok \in BOOLEAN :
        LET r == IF previewCamera THEN Cam_stopRecord(cam, ok) ELSE Skipped(cam)
        IN /\ cam' = r.cam
           /\ emitter' = emitter \o r.out
           /\ IF r.err = ""
              THEN /\ last' = Settle("stopRecord", r, 1, 0, "")
                   /\ videoDue' = videoDue + 1
              ELSE /\ last' = Settle("stopRecord", r, 0, 1, r.err)
                   /\ UNCHANGED videoDue
    /\ UNCHANGED <<env, settings, authStatus, call, access, lastStart, photoDue, webView>>

\* flipCamera without its catch clauses.
flipCamera_NoCatch ==
    /\ nCalls < MaxCalls
    /\ nCalls' = nCalls + 1
    /\ LET r == IF previewCamera THEN Cam_flipCamera(cam) ELSE Skipped(cam)
       IN /\ cam' = r.cam
          /\ last' = Settle("flipCamera", r, 1, 0, "")
    /\ UNCHANGED <<env, settings, authStatus, call, access, lastStart, emitter, host, webView>>

flipCamera ==
    /\ nCalls < MaxCalls
    /\ nCalls' = nCalls + 1
    /\ LET r == IF previewCamera THEN Cam_flipCamera(cam) ELSE Skipped(cam)
       IN /\ cam' = r.cam
          /\ last' = IF r.err = "" THEN Settle("flipCamera", r, 1, 0, "")
                                   ELSE Settle("flipCamera", r, 0, 1, r.err)
    /\ UNCHANGED <<env, settings, authStatus, call, access, lastStart, emitter, host, webView>>

Floats == {Absent} \cup {<<v>> : v \in (ZoomMin - 1)..(ZoomMax + 1)}
Coords == {Absent, <<0>>}

echo ==
    /\ nCalls < MaxCalls
    /\ nCalls' = nCalls + 1
    /\ \E opt \in {Absent, <<"hello">>} :
        LET value == IF opt = Absent THEN "" ELSE opt[1]
        IN last' = IF previewCamera
                   THEN Resolve("echo", Ok(cam), Cam_echo(value))
                   ELSE Settle("echo", Skipped(cam), 0, 0, "")
    /\ UNCHANGED cam
    /\ UNCHANGED <<env, settings, authStatus, call, access, lastStart, emitter, host, webView>>

getFlashModes ==
    /\ nCalls < MaxCalls
    /\ nCalls' = nCalls + 1
    /\ LET r == IF previewCamera THEN Cam_getFlashModes(cam) ELSE Skipped(cam)
       IN /\ cam' = r.cam
          /\ last' = IF r.err = "" THEN Settle("getFlashModes", r, 1, 0, "")
                                   ELSE Settle("getFlashModes", r, 0, 1, r.err)
    /\ UNCHANGED <<env, settings, authStatus, call, access, lastStart, emitter, host, webView>>

\* setFlashMode is the operation the interface declares. The plugin class has
\* no method of that name (its handler is called setFlashModes): the bridge
\* finds no handler and the call is rejected as not implemented.
setFlashMode ==
    /\ nCalls < MaxCalls
    /\ nCalls' = nCalls + 1
    /\ last' = Settle("setFlashMode", Skipped(cam), 0, 1, MsgUnimplemented)
    /\ UNCHANGED cam
    /\ UNCHANGED <<env, settings, authStatus, call, access, lastStart, emitter, host, webView>>

setFlashModes ==
    /\ nCalls < MaxCalls
    /\ nCalls' = nCalls + 1
    /\ LET r == IF previewCamera THEN Cam_getFlashModes(cam) ELSE Skipped(cam)
       IN /\ cam' = r.cam
          /\ last' = IF r.err = "" THEN Settle("setFlashModes", r, 1, 0, "")
                                   ELSE Settle("setFlashModes", r, 0, 1, r.err)
    /\ UNCHANGED <<env, settings, authStatus, call, access, lastStart, emitter, host, webView>>

isTorchOn ==
    /\ nCalls < MaxCalls
    /\ nCalls' = nCalls + 1
    /\ last' = IF previewCamera
               THEN Resolve("isTorchOn", Ok(cam), <<Cam_isTorchOn(cam)>>)
               ELSE Resolve("isTorchOn", Skipped(cam), Absent)
    /\ UNCHANGED cam
    /\ UNCHANGED <<env, settings, authStatus, call, access, lastStart, emitter, host, webView>>

enableTorch ==
    /\ nCalls < MaxCalls
    /\ nCalls' = nCalls + 1
    /\ \E opt \in {Absent, <<TRUE>>, <<FALSE>>} :
        LET value == IF opt = Absent THEN FALSE ELSE opt[1]
            r == IF previewCamera THEN Cam_enableTorch(cam, value) ELSE Skipped(cam)
        IN /\ cam' = r.cam
           /\ last' = Settle("enableTorch", r, 1, 0, "")
    /\ UNCHANGED <<env, settings, authStatus, call, access, lastStart, emitter, host, webView>>

isTorchAvailable ==
    /\ nCalls < MaxCalls
    /\ nCalls' = nCalls + 1
    /\ last' = IF previewCamera
               THEN Resolve("isTorchAvailable", Ok(cam), Cam_isTorchAvailable(cam))
               ELSE Resolve("isTorchAvailable", Skipped(cam), FALSE)
    /\ UNCHANGED cam
    /\ UNCHANGED <<env, settings, authStatus, call, access, lastStart, emitter, host, webView>>

focus ==
    /\ nCalls < MaxCalls
    /\ nCalls' = nCalls + 1
    /\ \E x \in Coords, y \in Coords :
        IF x = Absent \/ y = Absent
        THEN /\ last' = Settle("focus", Skipped(cam), 1, 0, "")
             /\ UNCHANGED cam
        ELSE LET r == IF previewCamera THEN Cam_focus(cam, x[1], y[1]) ELSE Skipped(cam)
             IN /\ cam' = r.cam
                /\ last' = Settle("focus", r, 0, 0, "")
    /\ UNCHANGED <<env, settings, authStatus, call, access, lastStart, emitter, host, webView>>

minAvailableZoom ==
    /\ nCalls < MaxCalls
    /\ nCalls' = nCalls + 1
    /\ last' = IF previewCamera
               THEN Resolve("minAvailableZoom", Ok(cam), Cam_minAvailableZoom(cam))
               ELSE Resolve("minAvailableZoom", Skipped(cam), DefaultZoom)
    /\ UNCHANGED cam
    /\ UNCHANGED <<env, settings, authStatus, call, access, lastStart, emitter, host, webView>>

maxAvailableZoom ==
    /\ nCalls < MaxCalls
    /\ nCalls' = nCalls + 1
    /\ last' = IF previewCamera
               THEN Resolve("maxAvailableZoom", Ok(cam), Cam_maxAvailableZoom(cam))
               ELSE Resolve("maxAvailableZoom", Skipped(cam), DefaultZoom)
    /\ UNCHANGED cam
    /\ UNCHANGED <<env, settings, authStatus, call, access, lastStart, emitter, host, webView>>

\* zoom rejecting a factor outside the device's range instead of passing it on.
zoom_RejectOutOfRange ==
    /\ nCalls < MaxCalls
    /\ nCalls' = nCalls + 1
    /\ \E factor \in Floats :
        IF factor = Absent
        THEN /\ last' = Settle("zoom", Skipped(cam), 1, 0, "")
             /\ UNCHANGED cam
        ELSE IF factor[1] < ZoomMin \/ factor[1] > ZoomMax
        THEN /\ last' = Settle("zoom", Skipped(cam), 0, 1, "zoom factor out of range")
             /\ UNCHANGED cam
        ELSE LET r == IF previewCamera THEN Cam_zoom(cam, factor[1]) ELSE Skipped(cam)
             IN /\ cam' = r.cam
                /\ last' = Settle("zoom", r, 0, 0, "")
    /\ UNCHANGED <<env, settings, authStatus, call, access, lastStart, emitter, host, webView>>

zoom ==
    /\ nCalls < MaxCalls
    /\ nCalls' = nCalls + 1
    /\ \E factor \in Floats :
        IF factor = Absent
        THEN /\ last' = Settle("zoom", Skipped(cam), 1, 0, "")
             /\ UNCHANGED cam
        ELSE LET r == IF previewCamera THEN Cam_zoom(cam, factor[1]) ELSE Skipped(cam)
             IN /\ cam' = r.cam
                /\ last' = Settle("zoom", r, 0, 0, "")
    /\ UNCHANGED <<env, settings, authStatus, call, access, lastStart, emitter, host, webView>>

setQuality ==
    /\ nCalls < MaxCalls
    /\ nCalls' = nCalls + 1
    /\ \E opt \in {Absent, <<"low">>, <<"hq">>} :
        LET quality == IF opt = Absent THEN "hq" ELSE opt[1]
            r == IF previewCamera THEN Cam_setQuality(cam, quality) ELSE Skipped(cam)
        IN /\ cam' = r.cam
           /\ last' = Settle("setQuality", r, 1, 0, "")
    /\ UNCHANGED <<env, settings, authStatus, call, access, lastStart, emitter, host, webView>>

\* The capture hardware finishes the pending photo: the result is persisted,
\* handed to the emitter, and the session returns to Previewing.
photoCaptureFinished ==
    /\ cam.state = "Capturing"
    /\ \E ok \in BOOLEAN :
        emitter' = Append(emitter, Persist("capturePhotoFinished", ok))
    /\ cam' = [cam EXCEPT !.state = "Previewing", !.pendingPhoto = @ - 1]
    /\ UNCHANGED <<env, settings, authStatus, call, access, lastStart, host, last, nCalls, webView>>

\* notifyListeners delivers the oldest CaptureResult to the host's listeners.
notifyListeners ==
    /\ emitter # <<>>
    /\ emitter' = Tail(emitter)
    /\ IF Head(emitter).name = "capturePhotoFinished"
       THEN photoDue' = photoDue - 1 /\ UNCHANGED videoDue
       ELSE videoDue' = videoDue - 1 /\ UNCHANGED photoDue
    /\ UNCHANGED <<env, settings, authStatus, cam, call, access, lastStart, last, nCalls, webView>>

\* The main queue runs its oldest block. The block of hideBackground clears the
\* web view and the page background; the block of showBackground resets the page
\* background and leaves the web view to the script's completion handler.
runMainQueue ==
    /\ mainQueue # <<>>
    /\ mainQueue' = Tail(mainQueue)
    /\ IF Head(mainQueue) = "hide"
       THEN /\ isOpaque' = FALSE
            /\ docBackground' = "transparent"
            /\ UNCHANGED jsCallbacks
       ELSE /\ docBackground' = ""
            /\ jsCallbacks' = jsCallbacks + 1
            /\ UNCHANGED isOpaque
    /\ UNCHANGED <<env, settings, authStatus, cam, call, access, lastStart, emitter, host, last,
                   nCalls>>

\* The completion handler of showBackground's evaluateJavaScript.
showBackgroundCompletion ==
    /\ jsCallbacks > 0
    /\ jsCallbacks' = jsCallbacks - 1
    /\ isOpaque' = TRUE
    /\ UNCHANGED <<env, settings, authStatus, cam, call, access, lastStart, emitter, host, last,
                   nCalls, mainQueue, docBackground>>

Next ==
    \/ startPreview
    \/ requestAccessCallback
    \/ stopPreview
    \/ takePhoto
    \/ capturePhoto
    \/ startRecord
    \/ stopRecord
    \/ flipCamera
    \/ echo
    \/ getFlashModes
    \/ setFlashModes
    \/ setFlashMode
    \/ isTorchOn
    \/ enableTorch
    \/ isTorchAvailable
    \/ focus
    \/ minAvailableZoom
    \/ maxAvailableZoom
    \/ zoom
    \/ setQuality
    \/ photoCaptureFinished
    \/ notifyListeners
    \/ runMainQueue
    \/ showBackgroundCompletion

Spec == Init /\ [][Next]_vars

-----------------------------------------------------------------------------
(* cameraSettings over the options a startPreview call can carry.          *)

Qualities ==
    {Absent} \cup {<<q>> : q \in {0 - MaxQuality, 0 - (Percent \div 2), 0,
                                  Percent \div 2, Percent, MaxQuality}}
Sizes == {Absent} \cup {<<v>> : v \in (0 - MaxSize)..MaxSize}
Flags == {Absent, <<FALSE>>}

OptionBags ==
    [quality : Qualities,
     direction : {Absent, <<"front">>, <<"rear">>, <<"up">>},
     resultType : {Absent, <<"base64">>, <<"none">>},
     width : Sizes,
     height : Sizes,
     correctOrientation : Flags,
     forcePortraitOrientation : Flags,
     mirrorFrontCameraResult : Flags]

\* A startPreview call with any of these options is held in self.call.
SettingsInit ==
    /\ call \in OptionBags
    /\ settings = Absent
    /\ previewCamera = TRUE
    /\ isSimEnvironment = FALSE
    /\ missingUsage = FALSE
    /\ authStatus = "authorized"
    /\ cameras = Directions
    /\ cam = CamInit
    /\ access = [d \in Directions |-> 0]
    /\ lastStart = NoStart
    /\ emitter = <<>>
    /\ photoDue = 0
    /\ videoDue = 0
    /\ last = NoCall
    /\ nCalls = 0
    /\ mainQueue = <<>>
    /\ jsCallbacks = 0
    /\ isOpaque = TRUE
    /\ docBackground = ""

\* cameraSettings(from: call) is evaluated and its result kept.
resolveSettings ==
    /\ settings = Absent
    /\ settings' = <<cameraSettings(call)>>
    /\ UNCHANGED <<env, authStatus, cam, call, access, lastStart, emitter, host, last,
                   nCalls, webView>>

SettingsNext == resolveSettings

SettingsSpec == SettingsInit /\ [][SettingsNext]_vars

-----------------------------------------------------------------------------
(* Properties.                                                             *)

\* The error of the taxonomy that a rejection message stands for.
Kind(msg) ==
    CASE msg = MsgDenied -> "PermissionDenied"
      [] msg = MsgSimulator -> "HardwareUnavailable"
      [] msg = MsgNotInitialized -> ErrNotInitialized
      [] OTHER -> msg

Rejected(c) == c.rejected = 1 /\ c.resolved = 0
Resolved(c) == c.resolved = 1 /\ c.rejected = 0

\* Number of CaptureResults of event `name` waiting in the emitter.
Queued(name) == Cardinality({i \in DOMAIN emitter : emitter[i].name = name})

\* No capture is pending and every CaptureResult has been delivered.
Quiescent == cam.pendingPhoto = 0 /\ emitter = <<>>

\* C1: every resolved takePhoto call is followed by exactly one
\* capturePhotoFinished event and every resolved stopRecord call by exactly one
\* captureVideoFinished event: no event is delivered that no resolved call
\* accounts for, and once nothing is pending every resolved call has had its
\* event.
C1_OneEventPerAcceptedRequest ==
    /\ photoDue >= 0
    /\ videoDue >= 0
    /\ Quiescent => photoDue = 0 /\ videoDue = 0

C3_Original ==
    /\ (last.op \in {"flipCamera", "stopPreview"} /\ last.pre \in {"Capturing", "Recording"}) =>
          /\ Rejected(last)
          /\ last.msg = ErrCaptureInProgress
          /\ last.same
    /\ (last.op = "stopRecord" /\ last.pre = "Recording") => Resolved(last)
    /\ \A i \in DOMAIN emitter :
          emitter[i].name = "captureVideoFinished" => emitter[i].filePath # ""

\* C3: in Capturing or Recording, flipCamera and stopPreview are rejected with
\* CaptureInProgress and leave the controller as it was (so a recording stays
\* a recording), and stopRecord on a running recording is resolved and emits
\* exactly one captureVideoFinished event, which carries a file path when the
\* video was written and an error message when writing it failed.
C3_NoStructuralChangeMidCapture ==
    /\ (last.op \in {"flipCamera", "stopPreview"} /\ last.pre \in {"Capturing", "Recording"}) =>
          /\ Rejected(last)
          /\ last.msg = ErrCaptureInProgress
          /\ last.same
    /\ (last.op = "stopRecord" /\ last.pre = "Recording") => Resolved(last)
    /\ previewCamera => videoDue = Queued("captureVideoFinished")
    /\ \A i \in DOMAIN emitter :
          emitter[i].name = "captureVideoFinished" =>
              (emitter[i].filePath # "") # (emitter[i].errorMessage # "")

C3_Witness ==
    /\ last.op = "flipCamera"
    /\ last.pre = "Recording"
    /\ Rejected(last)
    /\ cam.state = "Recording"

\* The commands C4 is about.
SessionCommands ==
    {"stopPreview", "takePhoto", "startRecord", "stopRecord", "flipCamera", "focus",
     "zoom", "enableTorch", "setQuality", "getFlashModes", "setFlashModes", "isTorchOn",
     "isTorchAvailable", "minAvailableZoom", "maxAvailableZoom"}

\* C4: a command other than startPreview that finds the session Idle (the
\* controller may not even exist) is rejected with NotInitialized, is not
\* resolved, and leaves the controller as it was.
C4_NotInitialized ==
    (last.op \in SessionCommands /\ last.pre = "Idle") =>
        /\ Rejected(last)
        /\ Kind(last.msg) = ErrNotInitialized
        /\ last.same

\* C5: stopPreview on an Idle session (as after a successful stopPreview) is
\* rejected with NotInitialized and releases nothing; a stopPreview is resolved
\* only on a Previewing session; the controller holds one device while the
\* session is started and none while it is Idle.
C5_NoDoubleRelease ==
    /\ (last.op = "stopPreview" /\ last.pre = "Idle") =>
          /\ Rejected(last)
          /\ Kind(last.msg) = ErrNotInitialized
          /\ last.same
    /\ (last.op = "stopPreview" /\ Resolved(last)) => last.pre = "Previewing"
    /\ cam.devices = IF cam.state = "Idle" THEN 0 ELSE 1

\* A session that was started and stopped, and a second stopPreview rejected.
C5_Witness ==
    /\ last.op = "stopPreview"
    /\ last.pre = "Idle"
    /\ last.ctl
    /\ Rejected(last)
    /\ lastStart.resolved = 1
    /\ lastStart.invoked
    /\ cam.state = "Idle"

\* C6 as stated: in the simulator every startPreview call is rejected with the
\* simulator message (HardwareUnavailable) and not resolved, no call asks for
\* camera access, startCameraPreview is never called and the session is Idle.
C6_Original ==
    isSimEnvironment =>
        /\ last.op = "startPreview" =>
              Rejected(last) /\ Kind(last.msg) = "HardwareUnavailable" /\ ~last.asked
        /\ Suspended = 0
        /\ ~lastStart.answered
        /\ cam.state = "Idle"

\* C6: in the simulator every startPreview call is rejected and not resolved,
\* with the simulator message (HardwareUnavailable) when the usage descriptions
\* are present and with the missing-description message when one is missing;
\* no call asks for camera access, startCameraPreview is never called and the
\* session is Idle.
C6_SimulatorRejects ==
    isSimEnvironment =>
        /\ last.op = "startPreview" =>
              /\ Rejected(last)
              /\ last.msg = IF missingUsage THEN MsgMissingUsage ELSE MsgSimulator
              /\ ~last.asked
        /\ Suspended = 0
        /\ ~lastStart.answered
        /\ cam.state = "Idle"

C6_Witness ==
    /\ isSimEnvironment
    /\ last.op = "startPreview"
    /\ Rejected(last)
    /\ Kind(last.msg) = "HardwareUnavailable"
    /\ previewCamera
    /\ authStatus = "authorized"

\* C7 as stated: startPreview under a denied or restricted authorization is
\* rejected with PermissionDenied, asks for no access and leaves the
\* controller as it was.
C7_Original ==
    (last.op = "startPreview" /\ last.auth \in {"denied", "restricted"}) =>
        /\ Rejected(last)
        /\ Kind(last.msg) = "PermissionDenied"
        /\ ~last.asked
        /\ last.same

\* C7: startPreview under a denied or restricted authorization is rejected,
\* asks for no access and leaves the controller as it was; the message is
\* PermissionDenied when the usage descriptions are present and the environment
\* is not the simulator, the missing-description message when a description is
\* missing, and otherwise the simulator message.
C7_DeniedRejects ==
    (last.op = "startPreview" /\ last.auth \in {"denied", "restricted"}) =>
        /\ Rejected(last)
        /\ last.msg = IF missingUsage THEN MsgMissingUsage
                      ELSE IF isSimEnvironment THEN MsgSimulator
                      ELSE MsgDenied
        /\ ~last.asked
        /\ last.same

C7_Witness ==
    /\ last.op = "startPreview"
    /\ last.auth = "restricted"
    /\ Rejected(last)
    /\ Kind(last.msg) = "PermissionDenied"
    /\ previewCamera

\* C8: a startPreview call that asked for camera access is not settled by its
\* handler, and once the access request was answered it is settled exactly
\* once: resolved when access was granted and startCameraPreview raised
\* nothing, rejected with PermissionDenied when access was refused, rejected
\* with the controller's message when startCameraPreview raised an error.
C8_SettledOnceAnswered ==
    /\ (last.op = "startPreview" /\ last.asked) => last.resolved + last.rejected = 0
    /\ lastStart.answered =>
          /\ lastStart.resolved + lastStart.rejected = 1
          /\ lastStart.resolved = 1 <=> (lastStart.granted /\ lastStart.raised = "")
          /\ ~lastStart.granted => Kind(lastStart.msg) = "PermissionDenied"
          /\ lastStart.raised # "" => lastStart.msg = lastStart.raised

\* C9: no handler calls the controller while a startPreview call waits for its
\* permission answer.
C9_SingleWriter == ~(last.during /\ last.invoked)

\* The commands C10 is about.
TryCommands == {"stopPreview", "takePhoto", "startRecord", "stopRecord", "flipCamera"}

\* C10 as stated: a call of stopPreview, takePhoto, startRecord, stopRecord or
\* flipCamera is rejected exactly when the controller raised an error, with
\* the error's message, and is resolved otherwise; it is settled once; a
\* rejection leaves the controller as it was.
C10_Original ==
    last.op \in TryCommands =>
        /\ last.resolved + last.rejected = 1
        /\ last.rejected = 1 <=> last.raised # ""
        /\ last.rejected = 1 => (last.msg = last.raised /\ last.msg # "" /\ last.same)

\* C10: as C10_Original, but stopPreview is rejected as well when the
\* controller was never created, with the message "Preview Camera not
\* initialized" and without any controller call.
C10_RejectedIffRaised ==
    last.op \in TryCommands =>
        LET uncreated == last.op = "stopPreview" /\ ~last.ctl
        IN /\ last.resolved + last.rejected = 1
           /\ last.rejected = 1 <=> (last.raised # "" \/ uncreated)
           /\ last.rejected = 1 =>
                 /\ last.msg = IF uncreated THEN MsgNotInitialized ELSE last.raised
                 /\ last.msg # ""
                 /\ last.same
           /\ uncreated => ~last.invoked

C10_Witness ==
    /\ last.op = "startRecord"
    /\ last.pre = "Recording"
    /\ Rejected(last)
    /\ last.msg = ErrRecordingInProgress
    /\ cam.state = "Recording"

\* C11: a failure to capture or write an accepted photo or video never
\* rejects the triggering call. Whenever a CaptureResult is handed to the
\* emitter, with a file path or with an error message, the session is
\* Previewing afterwards; a video result comes from a stopRecord call that is
\* resolved, a photo result from a takePhoto call that was resolved before and
\* settles no call; and in Previewing, also after a failed capture, takePhoto
\* and startRecord are accepted.
C11_FailureNeverRejects ==
    [][ /\ Len(emitter') > Len(emitter) =>
              LET e == emitter'[Len(emitter')]
              IN /\ cam'.state = "Previewing"
                 /\ IF e.name = "captureVideoFinished"
                    THEN last'.op = "stopRecord" /\ Resolved(last')
                    ELSE last' = last /\ photoDue' = photoDue /\ photoDue >= 1
                 /\ (e.filePath = "") => (e.errorMessage # "")
        /\ (last'.op \in {"takePhoto", "startRecord"} /\ last'.pre = "Previewing"
               /\ last'.ctl) => Resolved(last') ]_vars

\* A photo capture has failed and the next takePhoto was accepted.
C11_Witness ==
    /\ \E i \in DOMAIN emitter :
          emitter[i].name = "capturePhotoFinished" /\ emitter[i].errorMessage # ""
    /\ last.op = "takePhoto"
    /\ last.pre = "Previewing"
    /\ Resolved(last)
    /\ cam.state = "Capturing"

\* C12: every CaptureResult handed to notifyListeners, for capturePhotoFinished
\* as for captureVideoFinished, has exactly one of filePath and errorMessage
\* populated.
C12_ExactlyOneField ==
    \A i \in DOMAIN emitter :
        /\ emitter[i].name \in {"capturePhotoFinished", "captureVideoFinished"}
        /\ (emitter[i].filePath = "") # (emitter[i].errorMessage = "")

\* A written photo and a video that could not be written wait for delivery.
C12_Witness ==
    /\ Len(emitter) = 2
    /\ emitter[1].name = "capturePhotoFinished" /\ emitter[1].filePath # ""
    /\ emitter[2].name = "captureVideoFinished" /\ emitter[2].errorMessage # ""

\* A step of the handler `op`: it counts the command and records its outcome.
Handles(op) == nCalls' = nCalls + 1 /\ last'.op = op

\* C13: flipCamera is atomic with respect to failure. A flipCamera call on a
\* Previewing session whose opposite direction has no camera is rejected with
\* DeviceUnavailable and leaves the session state, the device held and its
\* direction as they were; a flipCamera call that is resolved has made the
\* opposite direction the active one, with exactly one device held.
C13_FlipAtomic ==
    [][ Handles("flipCamera") =>
          /\ (cam.state = "Previewing" /\ Opposite(cam.direction) \notin cameras) =>
                /\ Rejected(last')
                /\ last'.msg = ErrDeviceUnavailable
                /\ cam' = cam
          /\ Rejected(last') => cam' = cam
          /\ Resolved(last') =>
                /\ cam'.direction = Opposite(cam.direction)
                /\ cam'.devices = 1
                /\ cam'.state = cam.state ]_vars

\* C14: accepted startRecord and stopRecord calls strictly alternate, beginning
\* with startRecord. A startRecord call is resolved only outside Recording and
\* starts a recording, which nothing but a resolved stopRecord call ends; a
\* stopRecord call is resolved only in Recording. startRecord in Recording is
\* rejected with RecordingInProgress, stopRecord outside Recording is rejected,
\* with NotRecording on a started session, and a rejected call leaves the
\* controller as it was.
C14_RecordAlternation ==
    [][ LET started == cam.state # "Recording" /\ cam'.state = "Recording"
            stopped == cam.state = "Recording" /\ cam'.state # "Recording"
        IN /\ Handles("startRecord") =>
                 /\ Resolved(last') => started
                 /\ cam.state = "Recording" =>
                       Rejected(last') /\ last'.msg = ErrRecordingInProgress
                 /\ Rejected(last') => cam' = cam
           /\ Handles("stopRecord") =>
                 /\ Resolved(last') => stopped
                 /\ cam.state # "Recording" => Rejected(last')
                 /\ cam.state \in {"Previewing", "Capturing"} =>
                       last'.msg = ErrNotRecording
                 /\ Rejected(last') => cam' = cam
           /\ started => Handles("startRecord") /\ Resolved(last')
           /\ stopped => Handles("stopRecord") /\ Resolved(last') ]_vars

\* C15: a zoom call on a Previewing session, whatever its factor, is not
\* rejected and leaves the applied zoom within
\* [minAvailableZoom(), maxAvailableZoom()] of the active device; the zoom of
\* a started session never leaves that range.
C15_ZoomWithinRange ==
    [][ /\ (Handles("zoom") /\ cam.state = "Previewing") =>
              /\ last'.rejected = 0
              /\ cam'.zoom >= Cam_minAvailableZoom(cam')
              /\ cam'.zoom <= Cam_maxAvailableZoom(cam')
              /\ cam'.state = "Previewing"
        /\ cam'.state # "Idle" =>
              cam'.zoom \in Cam_minAvailableZoom(cam')..Cam_maxAvailableZoom(cam') ]_vars

\* A zoom call on a Previewing session has moved the zoom to the maximum.
C15_Witness ==
    /\ last.op = "zoom"
    /\ last.pre = "Previewing"
    /\ last.invoked
    /\ ~last.same
    /\ cam.zoom = Cam_maxAvailableZoom(cam)
    /\ cam.zoom > Cam_minAvailableZoom(cam)

\* C16: settings resolution clamps the quality into [0,1]. The resolved
\* jpegQuality is the supplied percentage clamped to [0,1] (here 0..100
\* hundredths), so a negative quality resolves to 0 and one above 100 to 1.0,
\* and an absent quality resolves to 1.0.
C16_QualityClamped ==
    settings # Absent =>
        /\ settings[1].jpegQuality = Clamp(Get(call.quality, DefaultQuality), 0, Percent)
        /\ call.quality = Absent => settings[1].jpegQuality = Percent

\* C17: every CameraSettings value cameraSettings returns has shouldResize
\* equal to (width > 0 or height > 0), whether width and height are supplied,
\* absent, zero or negative.
C17_ShouldResize ==
    settings # Absent =>
        (settings[1].shouldResize <=> (settings[1].width > 0 \/ settings[1].height > 0))

\* Settings resolved from a negative width and a positive height.
C17_Witness ==
    /\ settings # Absent
    /\ call.width # Absent /\ call.width[1] < 0
    /\ call.height # Absent /\ call.height[1] > 0
    /\ settings[1].shouldResize
    /\ settings[1].width < 0

\* C18: takePhoto and capturePhoto are both available and observationally
\* equivalent. A capturePhoto call is settled as a takePhoto call would be in
\* the same state (resolved when the controller accepts the capture, rejected
\* with the controller's message otherwise), changes the controller as
\* takePhoto does, and its capture owes one capturePhotoFinished event.
C18_CaptureLikeTake ==
    [][ Handles("capturePhoto") =>
          LET r == IF previewCamera THEN Cam_takePhoto(cam) ELSE Skipped(cam)
              like == IF r.err = "" THEN Settle("takePhoto", r, 1, 0, "")
                                    ELSE Settle("takePhoto", r, 0, 1, r.err)
          IN /\ last' = [like EXCEPT !.op = "capturePhoto"]
             /\ cam' = r.cam
             /\ photoDue' = IF r.err = "" THEN photoDue + 1 ELSE photoDue ]_vars

\* C19: getFlashModes and setFlashMode are query-only and setFlashMode is
\* served by a handler. Each call performs the flash-availability query on the
\* controller when there is one, is resolved when the query raises nothing and
\* rejected with the query's message otherwise, and leaves the session state,
\* the torch and the rest of the controller as they were.
C19_FlashQueryOnly ==
    [][ (Handles("getFlashModes") \/ Handles("setFlashMode")) =>
          LET r == IF previewCamera THEN Cam_getFlashModes(cam) ELSE Skipped(cam)
          IN /\ cam' = cam
             /\ last'.invoked = r.invoked
             /\ last'.raised = r.err
             /\ last'.resolved = (IF r.err = "" THEN 1 ELSE 0)
             /\ last'.rejected = 1 - last'.resolved
             /\ last'.msg = r.err ]_vars

\* The commands C20 is about.
SettledCommands ==
    {"echo", "stopPreview", "takePhoto", "startRecord", "stopRecord", "flipCamera",
     "getFlashModes", "setFlashMode", "isTorchOn", "enableTorch", "isTorchAvailable",
     "focus", "minAvailableZoom", "maxAvailableZoom", "zoom", "setQuality"}

\* C20: every call of a command other than startPreview is settled, resolved
\* or rejected, exactly once when its handler returns, whatever arguments it
\* carries and whether or not the controller exists.
C20_SettledOnReturn ==
    last.op \in SettledCommands => last.resolved + last.rejected = 1

\* The last successful call among startPreview and stopPreview was a
\* startPreview: the session is started or, without a controller (where no
\* stopPreview succeeds), a startPreview call was resolved.
PreviewShown == IF previewCamera THEN cam.state # "Idle" ELSE lastStart.resolved = 1

\* Every block queued on the main queue has run, and every completion handler.
UIQuiet == mainQueue = <<>> /\ jsCallbacks = 0

\* C21: the web view background follows the preview state under every
\* interleaving of the queued UI work. A block that makes the web view
\* transparent is queued only by a startPreview call that is resolved, a block
\* that restores it only by a stopPreview call that is resolved; and whenever
\* all queued blocks and completion handlers have run, the web view is
\* transparent if the last successful call was startPreview and opaque
\* otherwise.
C21_BackgroundFollowsPreview ==
    [][ /\ Len(mainQueue') > Len(mainQueue) =>
              IF mainQueue'[Len(mainQueue')] = "hide"
              THEN Suspended' < Suspended /\ lastStart'.resolved = 1
              ELSE Handles("stopPreview") /\ Resolved(last')
        /\ UIQuiet' => (isOpaque' <=> ~PreviewShown') ]_vars

====
